---- MODULE Spec2Model ----
(***************************************************************************)
(* The data-access layer (lib/supabase: the backend client facade, the     *)
(* data-access functions and the storage helpers) and the profile modal    *)
(* (components/UI/UserProfileModal.tsx) as a state machine.                 *)
(*                                                                         *)
(* A call of an async data-access function is a small process: the action  *)
(* named after the function runs its synchronous prefix (the facade check, *)
(* the first request), and one action per await resumes it with the        *)
(* backend's response.  The backend (tables, auth, object storage) handles  *)
(* a request atomically when the response is delivered.                    *)
(***************************************************************************)
EXTENDS Integers, Sequences, FiniteSets, Bags, TLC

VARIABLES
    supabase,   \* TRUE iff the client facade was created (not null)
    session,    \* the auth subsystem's current user id, or NoUser
    db,         \* the remote tables and the object store: name -> set of rows
    now,        \* the client clock (new Date(), Date.now())
    call,       \* per caller: the data-access call it is running or has run
    isOpen,     \* the modal's isOpen prop
    username,   \* the modal's username prop: whose profile it shows
    currentUser,\* the modal's currentUser prop
    ui,         \* the modal's React state (the useState values)
    tasks,      \* the modal's async functions suspended at an await (a bag)
    picker,     \* TRUE while the file chooser of the hidden input is open
    event,      \* the file the last step's change event carried, if any
    alert,      \* the alert the last step raised, "" if none
    interactions \* how many times the user or the parent has acted on the modal

modalVars ==
    <<isOpen, username, currentUser, ui, tasks, picker, event, alert,
      interactions>>
vars == <<supabase, session, db, now, call,
          isOpen, username, currentUser, ui, tasks, picker, event, alert,
          interactions>>

----------------------------------------------------------------------------
(* Values *)

\* JavaScript values, tagged so that values of different types compare.
Null == [t |-> "null"]
Bool(b) == [t |-> "bool", v |-> b]
Str(s) == [t |-> "str", v |-> s]
Row(r) == [t |-> "row", v |-> r]
List(s) == [t |-> "list", v |-> s]

\* Usernames are strings of characters, so that the guest pattern can be
\* computed on them.
Alice == <<"a", "l", "i", "c", "e">>
Bob == <<"b", "o", "b">>
Usernames == {Alice, Bob}

NoUser == "none"
UserIds == {"u1", "u2"}
UsernameOf(id) == IF id = "u1" THEN Alice ELSE Bob

Callers == {1, 2}
Ids == {1, 2}
\* The error messages the backend reports: any request can be refused, and
\* an insert can also violate a constraint of its table.
ErrMsgs(op) == IF op = "insert" THEN {"refused", "violates constraint"} ELSE {"refused"}

\* a and b merged, b's fields winning: the object spread {...a, ...b}
Spread(a, b) ==
    [f \in DOMAIN a \cup DOMAIN b |-> IF f \in DOMAIN b THEN b[f] ELSE a[f]]

Max(S) == CHOOSE x \in S : \A y \in S : y <= x

\* The sequences that hold each element of S once.
Perms(S) ==
    LET n == Cardinality(S)
    IN  {s \in [1..n -> S] : \A i, j \in 1..n : i # j => s[i] # s[j]}

----------------------------------------------------------------------------
(* The backend: tables, auth and object storage behind the facade *)

Tables == {"profiles", "pins", "marketplace_items", "blog_posts", "storage"}

\* A nullable text column holds Null or Str(characters).
ProfileRow(id) ==
    [id |-> id, username |-> UsernameOf(id), role |-> "user",
     about_me |-> Null, contact_info |-> Null, profile_picture_url |-> Null,
     created_at |-> 0, updated_at |-> 0]

PinRow(id, uname, t) == [id |-> id, username |-> uname, created_at |-> t]

SamplePins == {PinRow(1, Alice, 1), PinRow(2, Bob, 1), PinRow(3, Alice, 2)}

SampleItems ==
    {[id |-> 1, seller_username |-> Alice, is_active |-> TRUE,
      created_at |-> 0, updated_at |-> 0]}

SamplePosts ==
    {[id |-> 1, author_username |-> Alice, is_published |-> TRUE,
      view_count |-> 0, created_at |-> 0, updated_at |-> 0]}

\* The rows of T that pass every equality filter of eq.
Matching(T, eq) == {r \in T : \A c \in DOMAIN eq : r[c] = eq[c]}

\* .order('created_at', { ascending: false }): rows of equal created_at come
\* in an order the database picks.
OrderedDesc(S) ==
    {s \in Perms(S) :
        \A i \in 1..(Len(s) - 1) : s[i].created_at >= s[i + 1].created_at}

NoReq == [op |-> "none"]

\* What the backend answers to request r: a response is [status, data,
\* message, db], db being the tables after the request.  Any request can fail
\* with an error value or with an exception, leaving the tables as they are.
Failures(r) ==
    {[status |-> "throw", data |-> Null, message |-> "", db |-> db]}
    \cup {[status |-> "error", data |-> Null, message |-> m, db |-> db] :
             m \in ErrMsgs(r.op)}

Ok(data, d) == [status |-> "ok", data |-> data, message |-> "", db |-> d]

Answers(r) ==
    CASE r.op = "getUser" ->
           {Ok(IF session = NoUser THEN Null ELSE Str(session), db)}
      [] r.op = "select" ->
           LET rows == Matching(db[r.table], r.eq)
           IN  IF r.single
               THEN IF Cardinality(rows) = 1
                    THEN {Ok(Row(CHOOSE x \in rows : TRUE), db)}
                    ELSE {}
               ELSE IF r.order
                    THEN {Ok(List(s), db) : s \in OrderedDesc(rows)}
                    ELSE {Ok(List(s), db) : s \in Perms(rows)}
      [] r.op = "update" ->
           {Ok(Null, [db EXCEPT ![r.table] =
                   {IF x \in Matching(@, r.eq) THEN Spread(x, r.payload) ELSE x :
                        x \in @}])}
      [] r.op = "delete" ->
           {Ok(Null, [db EXCEPT ![r.table] = @ \ Matching(@, r.eq)])}
      [] r.op = "insert" ->
           LET T == db[r.table]
               defaults ==
                   IF r.table = "blog_posts"
                   THEN [id |-> Max({x.id : x \in T} \cup {0}) + 1,
                         created_at |-> now, updated_at |-> now,
                         view_count |-> 0]
                   ELSE [id |-> Max({x.id : x \in T} \cup {0}) + 1,
                         created_at |-> now, updated_at |-> now]
               row == Spread(defaults, r.payload)
           IN  {Ok(Row(row), [db EXCEPT ![r.table] = @ \cup {row}])}
      [] r.op = "upload" ->
           IF \E x \in db["storage"] : x.bucket = r.bucket /\ x.path = r.path
           THEN {}
           ELSE {Ok(Row([path |-> r.path]),
                    [db EXCEPT !["storage"] =
                        @ \cup {[bucket |-> r.bucket, path |-> r.path]}])}
      [] r.op = "remove" ->
           {Ok(Null, [db EXCEPT !["storage"] =
                   {x \in @ : ~(x.bucket = r.bucket /\ x.path = r.path)}])}

Responses(r) == Answers(r) \cup Failures(r)

----------------------------------------------------------------------------
(* Requests the client sends through the facade *)

GetUserReq == [op |-> "getUser"]
Select(table, eq, single, order) ==
    [op |-> "select", table |-> table, eq |-> eq, single |-> single,
     order |-> order]
Update(table, eq, payload) ==
    [op |-> "update", table |-> table, eq |-> eq, payload |-> payload]
Delete(table, eq) == [op |-> "delete", table |-> table, eq |-> eq]
Insert(table, payload) == [op |-> "insert", table |-> table, payload |-> payload]
Upload(bucket, path) == [op |-> "upload", bucket |-> bucket, path |-> path]
Remove(bucket, path) == [op |-> "remove", bucket |-> bucket, path |-> path]

----------------------------------------------------------------------------
(* A call of a data-access function *)

NoRet == [kind |-> "none"]

\* The last response a call received, as far as the code can tell them apart.
NoResp == [status |-> "none", message |-> ""]

\* fn: the function; args: its arguments; pc: idle, await (a request is in
\* flight: req) or done; ops: the requests this call has sent so far; data: the local the function keeps across an
\* await; ret: how the call ended; last: the last response it received.
IdleCall ==
    [fn |-> "none", args |-> <<>>, pc |-> "idle", ops |-> <<>>,
     req |-> NoReq, data |-> Null, ret |-> NoRet, last |-> NoResp]

Enter(fn, args) == [IdleCall EXCEPT !.fn = fn, !.args = args]

Return(c, v) ==
    [c EXCEPT !.pc = "done", !.req = NoReq,
              !.ret = [kind |-> "value", val |-> v]]

\* The call ends by raising an exception to its caller.
Raise(c, msg) ==
    [c EXCEPT !.pc = "done", !.req = NoReq,
              !.ret = [kind |-> "raised", message |-> msg]]

\* The call sends r and suspends at the await.
Issue(c, r) ==
    [c EXCEPT !.pc = "await", !.req = r, !.ops = Append(@, r)]

\* JavaScript's String.prototype.trim on a string of characters.
RECURSIVE TrimStart(_)
TrimStart(s) ==
    IF s # <<>> /\ Head(s) = " " THEN TrimStart(Tail(s)) ELSE s
RECURSIVE TrimEnd(_)
TrimEnd(s) ==
    IF s # <<>> /\ s[Len(s)] = " " THEN TrimEnd(SubSeq(s, 1, Len(s) - 1)) ELSE s
Trim(s) == TrimEnd(TrimStart(s))

----------------------------------------------------------------------------
(* The data-access functions: what each does up to its first await (_start)
   and what it does with each response *)

\* createMarketplaceItem_profile, were a missing profile to end the call with
\* null like a missing facade
createMarketplaceItem_profile_silent(c, profile) ==
    IF profile = Null
    THEN Return(c, Null)
    ELSE Issue(c, Insert("marketplace_items",
                 [seller_username |-> profile.v.username,
                  title |-> Trim(c.args[1]), is_active |-> TRUE]))

\* createMarketplaceItem once getCurrentUserProfile() has resolved to profile
createMarketplaceItem_profile(c, profile) ==
    IF profile = Null
    THEN Raise(c, "User not authenticated")
    ELSE Issue(c, Insert("marketplace_items",
                 [seller_username |-> profile.v.username,
                  title |-> Trim(c.args[1]), is_active |-> TRUE]))

\* createBlogPost once getCurrentUserProfile() has resolved to profile
createBlogPost_profile(c, profile) ==
    IF profile = Null
    THEN Raise(c, "User not authenticated")
    ELSE Issue(c, Insert("blog_posts",
                 [author_username |-> profile.v.username,
                  title |-> Trim(c.args[1]), is_published |-> c.args[2]]))

\* getCurrentUserProfile resolves to v: to its caller, or into the creation
\* function that awaits it.
getCurrentUserProfile_resolve(c, v) ==
    CASE c.fn = "createMarketplaceItem" -> createMarketplaceItem_profile(c, v)
      [] c.fn = "createBlogPost" -> createBlogPost_profile(c, v)
      [] OTHER -> Return(c, v)

getCurrentUserProfile_start(c) ==
    IF ~supabase THEN Return(c, Null) ELSE Issue(c, GetUserReq)

\* after await supabase.auth.getUser()
getCurrentUserProfile_user(c, resp) ==
    IF resp.status = "throw"
    THEN getCurrentUserProfile_resolve(c, Null)
    ELSE IF resp.data = Null
         THEN getCurrentUserProfile_resolve(c, Null)
         ELSE Issue(c, Select("profiles", [id |-> resp.data.v], TRUE, FALSE))

\* after await supabase.from('profiles').select('*').eq('id', user.id).single()
getCurrentUserProfile_profile(c, resp) ==
    IF resp.status # "ok"
    THEN getCurrentUserProfile_resolve(c, Null)
    ELSE IF resp.data = Null
         THEN getCurrentUserProfile_resolve(c, Null)
         ELSE getCurrentUserProfile_resolve(c, resp.data)

getProfileByUsername_start(c, uname) ==
    IF ~supabase
    THEN Return(c, Null)
    ELSE Issue(c, Select("profiles", [username |-> uname], FALSE, FALSE))

getProfileByUsername_then(c, resp) ==
    IF resp.status # "ok"
    THEN Return(c, Null)
    ELSE IF resp.data # Null /\ Len(resp.data.v) > 0
         THEN Return(c, Row(resp.data.v[1]))
         ELSE Return(c, Null)

updateUserProfile_start(c, userId, profileData) ==
    IF ~supabase
    THEN Return(c, Bool(FALSE))
    ELSE Issue(c, Update("profiles", [id |-> userId],
                         Spread(profileData, [updated_at |-> now])))

updateUserProfile_then(c, resp) ==
    IF resp.status = "throw"
    THEN Return(c, Bool(FALSE))
    ELSE Return(c, Bool(resp.status # "error"))

\* getUserPins_start without the .order(...)
getUserPins_start_unordered(c, uname) ==
    IF ~supabase
    THEN Return(c, List(<<>>))
    ELSE Issue(c, Select("pins", [username |-> uname], FALSE, FALSE))

getUserPins_start(c, uname) ==
    IF ~supabase
    THEN Return(c, List(<<>>))
    ELSE Issue(c, Select("pins", [username |-> uname], FALSE, TRUE))

\* no try/catch around the await: a rejected request rejects the call
getUserPins_then(c, resp) ==
    IF resp.status = "throw"
    THEN Raise(c, "request failed")
    ELSE IF resp.data = Null THEN Return(c, List(<<>>)) ELSE Return(c, resp.data)

\* `${userId}/${Date.now()}-${Math.random()...}.${fileExt}`
uploadImage_fileName(file, userId, rand) ==
    [owner |-> userId, time |-> now, rand |-> rand, ext |-> file.ext]

uploadImage_start(c, file, userId, bucketName, rand) ==
    IF ~supabase
    THEN Return(c, Null)
    ELSE Issue(c, Upload(bucketName, uploadImage_fileName(file, userId, rand)))

uploadImage_then(c, resp) ==
    IF resp.status # "ok" THEN Return(c, Null) ELSE Return(c, Str(resp.data.v.path))

\* getImageUrl_start without the facade check: supabase.storage on null
getImageUrl_start_unchecked(c, path, bucketName) ==
    IF ~supabase
    THEN Raise(c, "TypeError")
    ELSE Return(c, Str([bucket |-> bucketName, path |-> path]))

\* synchronous: getPublicUrl builds the URL without a request
getImageUrl_start(c, path, bucketName) ==
    IF ~supabase
    THEN Return(c, Str(""))
    ELSE Return(c, Str([bucket |-> bucketName, path |-> path]))

deleteImage_start(c, path, bucketName) ==
    IF ~supabase THEN Return(c, Bool(FALSE)) ELSE Issue(c, Remove(bucketName, path))

deleteImage_then(c, resp) ==
    IF resp.status = "throw"
    THEN Return(c, Bool(FALSE))
    ELSE Return(c, Bool(resp.status # "error"))

\* The list functions' handling of the response: [] on an error or an
\* exception, data || [] otherwise.
ListOrEmpty(c, resp) ==
    IF resp.status # "ok"
    THEN Return(c, List(<<>>))
    ELSE IF resp.data = Null THEN Return(c, List(<<>>)) ELSE Return(c, resp.data)

getMarketplaceItems_start(c) ==
    IF ~supabase
    THEN Return(c, List(<<>>))
    ELSE Issue(c, Select("marketplace_items", [is_active |-> TRUE], FALSE, TRUE))

getMarketplaceItems_then(c, resp) == ListOrEmpty(c, resp)

createMarketplaceItem_start(c) ==
    IF ~supabase THEN Return(c, Null) ELSE getCurrentUserProfile_start(c)

\* after the insert(...).select().single()
createMarketplaceItem_then(c, resp) ==
    CASE resp.status = "throw" -> Raise(c, "request failed")
      [] resp.status = "error" -> Raise(c, resp.message)
      [] OTHER -> Return(c, resp.data)

updateMarketplaceItem_start(c, itemId, updates) ==
    IF ~supabase
    THEN Return(c, Bool(FALSE))
    ELSE Issue(c, Update("marketplace_items", [id |-> itemId],
                         Spread(updates, [updated_at |-> now])))

\* updateMarketplaceItem_then, were it to send the update again on an error
updateMarketplaceItem_then_retry(c, resp) ==
    IF resp.status = "throw"
    THEN Return(c, Bool(FALSE))
    ELSE IF resp.status = "error" /\ Len(c.ops) = 1
         THEN Issue(c, c.req)
         ELSE Return(c, Bool(resp.status # "error"))

updateMarketplaceItem_then(c, resp) ==
    IF resp.status = "throw"
    THEN Return(c, Bool(FALSE))
    ELSE Return(c, Bool(resp.status # "error"))

deleteMarketplaceItem_start(c, itemId) ==
    IF ~supabase
    THEN Return(c, Bool(FALSE))
    ELSE Issue(c, Delete("marketplace_items", [id |-> itemId]))

deleteMarketplaceItem_then(c, resp) ==
    IF resp.status = "throw"
    THEN Return(c, Bool(FALSE))
    ELSE Return(c, Bool(resp.status # "error"))

getUserMarketplaceItems_start(c, uname) ==
    IF ~supabase
    THEN Return(c, List(<<>>))
    ELSE Issue(c, Select("marketplace_items", [seller_username |-> uname],
                         FALSE, TRUE))

getUserMarketplaceItems_then(c, resp) == ListOrEmpty(c, resp)

getBlogPosts_start(c, publishedOnly) ==
    IF ~supabase
    THEN Return(c, List(<<>>))
    ELSE Issue(c, Select("blog_posts",
                         IF publishedOnly THEN [is_published |-> TRUE] ELSE <<>>,
                         FALSE, TRUE))

getBlogPosts_then(c, resp) == ListOrEmpty(c, resp)

getUserBlogPosts_start(c, uname) ==
    IF ~supabase
    THEN Return(c, List(<<>>))
    ELSE Issue(c, Select("blog_posts", [author_username |-> uname],
                         FALSE, TRUE))

getUserBlogPosts_then(c, resp) == ListOrEmpty(c, resp)

createBlogPost_start(c) ==
    IF ~supabase THEN Return(c, Null) ELSE getCurrentUserProfile_start(c)

\* createBlogPost_then, were it to log the error and return null like the
\* other functions
createBlogPost_then_fallback(c, resp) ==
    CASE resp.status = "throw" -> Raise(c, "request failed")
      [] resp.status = "error" -> Return(c, Null)
      [] OTHER -> Return(c, resp.data)

createBlogPost_then(c, resp) ==
    CASE resp.status = "throw" -> Raise(c, "request failed")
      [] resp.status = "error" -> Raise(c, resp.message)
      [] OTHER -> Return(c, resp.data)

\* updateBlogPost_start with the spread after updated_at: { updated_at, ...updates }
updateBlogPost_start_spreadLast(c, postId, updates) ==
    IF ~supabase
    THEN Return(c, Bool(FALSE))
    ELSE Issue(c, Update("blog_posts", [id |-> postId],
                         Spread([updated_at |-> now], updates)))

updateBlogPost_start(c, postId, updates) ==
    IF ~supabase
    THEN Return(c, Bool(FALSE))
    ELSE Issue(c, Update("blog_posts", [id |-> postId],
                         Spread(updates, [updated_at |-> now])))

updateBlogPost_then(c, resp) ==
    IF resp.status = "throw"
    THEN Return(c, Bool(FALSE))
    ELSE Return(c, Bool(resp.status # "error"))

deleteBlogPost_start(c, postId) ==
    IF ~supabase
    THEN Return(c, Bool(FALSE))
    ELSE Issue(c, Delete("blog_posts", [id |-> postId]))

deleteBlogPost_then(c, resp) ==
    IF resp.status = "throw"
    THEN Return(c, Bool(FALSE))
    ELSE Return(c, Bool(resp.status # "error"))

getBlogPost_start(c, postId) ==
    IF ~supabase
    THEN Return(c, Null)
    ELSE Issue(c, Select("blog_posts", [id |-> postId], TRUE, FALSE))

\* getBlogPost_read counting a read twice
getBlogPost_read_twice(c, resp) ==
    CASE resp.status = "throw" -> Return(c, Null)
      [] resp.status = "error" -> Return(c, Null)
      [] resp.data = Null -> Return(c, resp.data)
      [] OTHER ->
           Issue([c EXCEPT !.data = resp.data],
                 Update("blog_posts", [id |-> c.args[1]],
                        [view_count |-> resp.data.v.view_count + 2]))

\* getBlogPost_read writing the value read, without the + 1
getBlogPost_read_same(c, resp) ==
    CASE resp.status = "throw" -> Return(c, Null)
      [] resp.status = "error" -> Return(c, Null)
      [] resp.data = Null -> Return(c, resp.data)
      [] OTHER ->
           Issue([c EXCEPT !.data = resp.data],
                 Update("blog_posts", [id |-> c.args[1]],
                        [view_count |-> resp.data.v.view_count]))

\* after the select: the read value is kept in data, and the increment is
\* sent as a separate update of view_count alone
getBlogPost_read(c, resp) ==
    CASE resp.status = "throw" -> Return(c, Null)
      [] resp.status = "error" -> Return(c, Null)
      [] resp.data = Null -> Return(c, resp.data)
      [] OTHER ->
           Issue([c EXCEPT !.data = resp.data],
                 Update("blog_posts", [id |-> c.args[1]],
                        [view_count |-> resp.data.v.view_count + 1]))

\* after the update, whose error value is not looked at
getBlogPost_then(c, resp) ==
    IF resp.status = "throw" THEN Return(c, Null) ELSE Return(c, c.data)

----------------------------------------------------------------------------
(* The profile modal's state *)

Digits == {"0", "1", "2", "3", "4", "5", "6", "7", "8", "9"}
Guest == <<"1", "2", "3", "4", "5", "6", "7">>
ModalUsernames == {Alice, Bob, Guest}

\* username.match(/^\d{7}$/)
IsGuestUser(u) == Len(u) = 7 /\ \A i \in 1..Len(u) : u[i] \in Digits

\* A null id, in the id column's own type so that .eq('id', ...) compares it
\* with the ids of the rows (and matches none).
NullId == "null"

\* The useState initial values (the username editor and the pins expander, which
\* no async function reads or writes, are left out).
InitUi ==
    [userPins |-> List(<<>>), loading |-> FALSE, isAuthenticated |-> FALSE,
     userProfile |-> Null, isUploadingProfilePicture |-> FALSE,
     isEditingProfile |-> FALSE, editAboutMe |-> <<>>, editContactInfo |-> <<>>,
     savingProfile |-> FALSE]

NoFile == [ext |-> "none"]
NoEvent == [kind |-> "none", file |-> NoFile]
NoTask == [fn |-> "none"]

\* The modal is mounted closed and nothing touches it.
ModalUnused ==
    /\ isOpen = FALSE
    /\ username = Alice
    /\ currentUser = Alice
    /\ ui = InitUi
    /\ tasks = EmptyBag
    /\ picker = FALSE
    /\ event = NoEvent
    /\ alert = ""
    /\ interactions = 0

----------------------------------------------------------------------------
(* Callers of the data-access layer *)

MaxTime == 2

\* Arguments the callers pass.
ProfileDatas ==
    {[about_me |-> Str(<<"h", "i">>)],
     [about_me |-> Str(<<"h", "i">>), updated_at |-> 0]}
ItemUpdates == {[is_active |-> FALSE], [is_active |-> FALSE, updated_at |-> 0]}
PostUpdates ==
    {[is_published |-> FALSE], [is_published |-> FALSE, updated_at |-> 0]}
Titles == {<<" ", "t", " ">>}
Png == [ext |-> "png", size |-> 1024, type |-> <<"i", "m", "a", "g", "e", "/", "p", "n", "g">>]
Buckets == {"pin-images", "profile-pictures"}
Rands == {"r"}
Paths == {uploadImage_fileName(Png, "u1", "r")}

Received(c, resp) ==
    [c EXCEPT !.last = [status |-> resp.status, message |-> resp.message]]

\* Caller p has made no call yet.
Idle(p) == call[p].pc = "idle"

\* Caller p makes a call: c is the call after its synchronous prefix.
Starts(p, c) ==
    /\ call' = [call EXCEPT ![p] = c]
    /\ UNCHANGED <<supabase, session, db, now>>
    /\ UNCHANGED modalVars

\* Call p of one of fns awaits the response to a request op.
Awaits(p, fns, op) ==
    /\ call[p].pc = "await"
    /\ call[p].fn \in fns
    /\ call[p].req.op = op

\* The backend has handled the request of call p, which goes on as c.
Resumes(p, c, resp) ==
    /\ db' = resp.db
    /\ call' = [call EXCEPT ![p] = Received(c, resp)]
    /\ UNCHANGED <<supabase, session, now>>
    /\ UNCHANGED modalVars

ProfileFns == {"getCurrentUserProfile", "createMarketplaceItem", "createBlogPost"}

getCurrentUserProfile(p) ==
    /\ Idle(p)
    /\ Starts(p, getCurrentUserProfile_start(Enter("getCurrentUserProfile", <<>>)))
getCurrentUserProfile_await1(p) ==
    /\ Awaits(p, ProfileFns, "getUser")
    /\ \E resp \in Responses(call[p].req) :
          Resumes(p, getCurrentUserProfile_user(call[p], resp), resp)
getCurrentUserProfile_await2(p) ==
    /\ Awaits(p, ProfileFns, "select")
    /\ \E resp \in Responses(call[p].req) :
          Resumes(p, getCurrentUserProfile_profile(call[p], resp), resp)

getProfileByUsername(p) ==
    \E uname \in Usernames :
        /\ Idle(p)
        /\ Starts(p, getProfileByUsername_start(
                    Enter("getProfileByUsername", <<uname>>), uname))
getProfileByUsername_await(p) ==
    /\ Awaits(p, {"getProfileByUsername"}, "select")
    /\ \E resp \in Responses(call[p].req) :
          Resumes(p, getProfileByUsername_then(call[p], resp), resp)

updateUserProfile(p) ==
    \E userId \in {"u1"}, profileData \in ProfileDatas :
        /\ Idle(p)
        /\ Starts(p, updateUserProfile_start(
                    Enter("updateUserProfile", <<userId, profileData>>),
                    userId, profileData))
updateUserProfile_await(p) ==
    /\ Awaits(p, {"updateUserProfile"}, "update")
    /\ \E resp \in Responses(call[p].req) :
          Resumes(p, updateUserProfile_then(call[p], resp), resp)

getUserPins(p) ==
    \E uname \in Usernames :
        /\ Idle(p)
        /\ Starts(p, getUserPins_start(Enter("getUserPins", <<uname>>), uname))
getUserPins_await(p) ==
    /\ Awaits(p, {"getUserPins"}, "select")
    /\ \E resp \in Responses(call[p].req) :
          Resumes(p, getUserPins_then(call[p], resp), resp)

uploadImage(p) ==
    \E userId \in {"u1"}, bucketName \in {"pin-images"}, rand \in Rands :
        /\ Idle(p)
        /\ Starts(p, uploadImage_start(
                    Enter("uploadImage", <<Png, userId, bucketName>>),
                    Png, userId, bucketName, rand))
uploadImage_await(p) ==
    /\ Awaits(p, {"uploadImage"}, "upload")
    /\ \E resp \in Responses(call[p].req) :
          Resumes(p, uploadImage_then(call[p], resp), resp)

getImageUrl(p) ==
    \E path \in Paths, bucketName \in Buckets :
        /\ Idle(p)
        /\ Starts(p, getImageUrl_start(
                    Enter("getImageUrl", <<path, bucketName>>), path, bucketName))

deleteImage(p) ==
    \E path \in Paths, bucketName \in {"pin-images"} :
        /\ Idle(p)
        /\ Starts(p, deleteImage_start(
                    Enter("deleteImage", <<path, bucketName>>), path, bucketName))
deleteImage_await(p) ==
    /\ Awaits(p, {"deleteImage"}, "remove")
    /\ \E resp \in Responses(call[p].req) :
          Resumes(p, deleteImage_then(call[p], resp), resp)

getMarketplaceItems(p) ==
    /\ Idle(p)
    /\ Starts(p, getMarketplaceItems_start(Enter("getMarketplaceItems", <<>>)))
getMarketplaceItems_await(p) ==
    /\ Awaits(p, {"getMarketplaceItems"}, "select")
    /\ \E resp \in Responses(call[p].req) :
          Resumes(p, getMarketplaceItems_then(call[p], resp), resp)

createMarketplaceItem(p) ==
    \E title \in Titles :
        /\ Idle(p)
        /\ Starts(p, createMarketplaceItem_start(
                    Enter("createMarketplaceItem", <<title>>)))
createMarketplaceItem_await(p) ==
    /\ Awaits(p, {"createMarketplaceItem"}, "insert")
    /\ \E resp \in Responses(call[p].req) :
          Resumes(p, createMarketplaceItem_then(call[p], resp), resp)

updateMarketplaceItem(p) ==
    \E itemId \in Ids, updates \in ItemUpdates :
        /\ Idle(p)
        /\ Starts(p, updateMarketplaceItem_start(
                    Enter("updateMarketplaceItem", <<itemId, updates>>),
                    itemId, updates))
updateMarketplaceItem_await(p) ==
    /\ Awaits(p, {"updateMarketplaceItem"}, "update")
    /\ \E resp \in Responses(call[p].req) :
          Resumes(p, updateMarketplaceItem_then(call[p], resp), resp)

deleteMarketplaceItem(p) ==
    \E itemId \in Ids :
        /\ Idle(p)
        /\ Starts(p, deleteMarketplaceItem_start(
                    Enter("deleteMarketplaceItem", <<itemId>>), itemId))
deleteMarketplaceItem_await(p) ==
    /\ Awaits(p, {"deleteMarketplaceItem"}, "delete")
    /\ \E resp \in Responses(call[p].req) :
          Resumes(p, deleteMarketplaceItem_then(call[p], resp), resp)

getUserMarketplaceItems(p) ==
    \E uname \in Usernames :
        /\ Idle(p)
        /\ Starts(p, getUserMarketplaceItems_start(
                    Enter("getUserMarketplaceItems", <<uname>>), uname))
getUserMarketplaceItems_await(p) ==
    /\ Awaits(p, {"getUserMarketplaceItems"}, "select")
    /\ \E resp \in Responses(call[p].req) :
          Resumes(p, getUserMarketplaceItems_then(call[p], resp), resp)

getBlogPosts(p) ==
    \E publishedOnly \in BOOLEAN :
        /\ Idle(p)
        /\ Starts(p, getBlogPosts_start(
                    Enter("getBlogPosts", <<publishedOnly>>), publishedOnly))
getBlogPosts_await(p) ==
    /\ Awaits(p, {"getBlogPosts"}, "select")
    /\ \E resp \in Responses(call[p].req) :
          Resumes(p, getBlogPosts_then(call[p], resp), resp)

getUserBlogPosts(p) ==
    \E uname \in Usernames :
        /\ Idle(p)
        /\ Starts(p, getUserBlogPosts_start(
                    Enter("getUserBlogPosts", <<uname>>), uname))
getUserBlogPosts_await(p) ==
    /\ Awaits(p, {"getUserBlogPosts"}, "select")
    /\ \E resp \in Responses(call[p].req) :
          Resumes(p, getUserBlogPosts_then(call[p], resp), resp)

createBlogPost(p) ==
    \E title \in Titles, isPublished \in BOOLEAN :
        /\ Idle(p)
        /\ Starts(p, createBlogPost_start(
                    Enter("createBlogPost", <<title, isPublished>>)))
createBlogPost_await(p) ==
    /\ Awaits(p, {"createBlogPost"}, "insert")
    /\ \E resp \in Responses(call[p].req) :
          Resumes(p, createBlogPost_then(call[p], resp), resp)

updateBlogPost(p) ==
    \E postId \in Ids, updates \in PostUpdates :
        /\ Idle(p)
        /\ Starts(p, updateBlogPost_start(
                    Enter("updateBlogPost", <<postId, updates>>), postId, updates))
updateBlogPost_await(p) ==
    /\ Awaits(p, {"updateBlogPost"}, "update")
    /\ \E resp \in Responses(call[p].req) :
          Resumes(p, updateBlogPost_then(call[p], resp), resp)

deleteBlogPost(p) ==
    \E postId \in Ids :
        /\ Idle(p)
        /\ Starts(p, deleteBlogPost_start(Enter("deleteBlogPost", <<postId>>), postId))
deleteBlogPost_await(p) ==
    /\ Awaits(p, {"deleteBlogPost"}, "delete")
    /\ \E resp \in Responses(call[p].req) :
          Resumes(p, deleteBlogPost_then(call[p], resp), resp)

getBlogPost(p) ==
    \E postId \in Ids :
        /\ Idle(p)
        /\ Starts(p, getBlogPost_start(Enter("getBlogPost", <<postId>>), postId))
getBlogPost_await1(p) ==
    /\ Awaits(p, {"getBlogPost"}, "select")
    /\ \E resp \in Responses(call[p].req) :
          Resumes(p, getBlogPost_read(call[p], resp), resp)
getBlogPost_await2(p) ==
    /\ Awaits(p, {"getBlogPost"}, "update")
    /\ \E resp \in Responses(call[p].req) :
          Resumes(p, getBlogPost_then(call[p], resp), resp)

\* Time passes.
Tick ==
    /\ now < MaxTime
    /\ now' = now + 1
    /\ UNCHANGED <<supabase, session, db, call>>
    /\ UNCHANGED modalVars

InitDb(owners) ==
    [t \in Tables |->
        CASE t = "profiles" -> {ProfileRow(id) : id \in owners}
          [] t = "pins" -> SamplePins
          [] t = "marketplace_items" -> SampleItems
          [] t = "blog_posts" -> SamplePosts
          [] OTHER -> {}]

Init ==
    /\ supabase \in BOOLEAN
    /\ session \in {NoUser, "u1"}
    /\ \E owners \in {{"u2"}, UserIds} : db = InitDb(owners)
    /\ now = 1
    /\ call = [p \in Callers |-> IdleCall]
    /\ ModalUnused

\* A response to the request a call awaits.
Await(p) ==
    \/ getCurrentUserProfile_await1(p)
    \/ getCurrentUserProfile_await2(p)
    \/ getProfileByUsername_await(p)
    \/ updateUserProfile_await(p)
    \/ getUserPins_await(p)
    \/ uploadImage_await(p)
    \/ deleteImage_await(p)
    \/ getMarketplaceItems_await(p)
    \/ createMarketplaceItem_await(p)
    \/ updateMarketplaceItem_await(p)
    \/ deleteMarketplaceItem_await(p)
    \/ getUserMarketplaceItems_await(p)
    \/ getBlogPosts_await(p)
    \/ getUserBlogPosts_await(p)
    \/ createBlogPost_await(p)
    \/ updateBlogPost_await(p)
    \/ deleteBlogPost_await(p)
    \/ getBlogPost_await1(p)
    \/ getBlogPost_await2(p)

Next ==
    \/ \E p \in Callers :
          \/ getCurrentUserProfile(p)
          \/ getProfileByUsername(p)
          \/ updateUserProfile(p)
          \/ getUserPins(p)
          \/ uploadImage(p)
          \/ getImageUrl(p)
          \/ deleteImage(p)
          \/ getMarketplaceItems(p)
          \/ createMarketplaceItem(p)
          \/ updateMarketplaceItem(p)
          \/ deleteMarketplaceItem(p)
          \/ getUserMarketplaceItems(p)
          \/ getBlogPosts(p)
          \/ getUserBlogPosts(p)
          \/ createBlogPost(p)
          \/ updateBlogPost(p)
          \/ deleteBlogPost(p)
          \/ getBlogPost(p)
          \/ Await(p)
    \/ Tick

Spec == Init /\ [][Next]_vars

----------------------------------------------------------------------------
(* The pins query on its own: every small pins table *)

MaxPins == 3

\* Every pins table of at most MaxPins rows, over two usernames and two times.
PinsTables ==
    UNION {
        {{PinRow(id, f[id][1], f[id][2]) : id \in ids} :
            f \in [ids -> Usernames \X {1, 2}]} :
        ids \in SUBSET (1..MaxPins)}

InitPins ==
    /\ supabase \in BOOLEAN
    /\ session = NoUser
    /\ \E T \in PinsTables : db = [InitDb(UserIds) EXCEPT !["pins"] = T]
    /\ now = 1
    /\ call = [p \in Callers |-> IdleCall]
    /\ ModalUnused

NextPins == \E p \in Callers : getUserPins(p) \/ getUserPins_await(p)

SpecPins == InitPins /\ [][NextPins]_vars

----------------------------------------------------------------------------
(* The profile modal: its async functions.  A function suspended at an await
   is a task: fn is the function the user or the effect started, at the await
   it is suspended at, username and currentUser the props of the render whose
   closure it runs in, userProfile and file what a handler read before its
   first await, c the data-access call it awaits.  A segment of a function
   (from one await to the next) gives a frame: the React state it leaves, the
   alert it raised and the task that remains. *)

MaxTasks == 3
MaxInteractions == 4
MaxImageBytes == 5 * 1024 * 1024

Frame(u, a, t) == [ui |-> u, alert |-> a, task |-> t]

Task(fn, u, cu, up, file) ==
    [fn |-> fn, at |-> "start", username |-> u, currentUser |-> cu,
     userProfile |-> up, file |-> file, c |-> IdleCall]

Suspend(t, at, c) == [t EXCEPT !.at = at, !.c = c]

\* s.startsWith(prefix)
StartsWith(s, prefix) ==
    Len(s) >= Len(prefix) /\ SubSeq(s, 1, Len(prefix)) = prefix

ImagePrefix == <<"i", "m", "a", "g", "e", "/">>

\* x || '' for a nullable text column
OrEmpty(x) == IF x = Null THEN <<>> ELSE x.v

\* s.trim() || null
TrimOrNull(s) == IF Trim(s) = <<>> THEN Null ELSE Str(Trim(s))

\* The mock profile fetchProfileData builds for a guest.
mockProfile(u) ==
    Row([id |-> NullId, username |-> u, role |-> "guest",
         created_at |-> now, updated_at |-> now, contact_info |-> Null,
         about_me |-> Null, profile_picture_url |-> Null, banner_url |-> Null])

\* The data-access call c goes on with the response to its request.
Continue(c, resp) ==
    Received(
        CASE c.fn = "getUserPins" -> getUserPins_then(c, resp)
          [] c.fn = "getCurrentUserProfile" /\ c.req.op = "getUser" ->
                getCurrentUserProfile_user(c, resp)
          [] c.fn = "getCurrentUserProfile" /\ c.req.op = "select" ->
                getCurrentUserProfile_profile(c, resp)
          [] c.fn = "getProfileByUsername" -> getProfileByUsername_then(c, resp)
          [] c.fn = "updateUserProfile" -> updateUserProfile_then(c, resp)
          [] c.fn = "uploadImage" -> uploadImage_then(c, resp)
          [] OTHER -> Return(c, resp.data),
        resp)

\* handleSaveProfile once its await fetchProfileData() has resolved
handleSaveProfile_fetched(t, u) ==
    Frame([u EXCEPT !.isEditingProfile = FALSE, !.savingProfile = FALSE],
          "Profile updated successfully!", NoTask)

\* handleSaveProfile's catch and finally
handleSaveProfile_failed(t, u) ==
    Frame([u EXCEPT !.savingProfile = FALSE],
          "Failed to update profile. Please try again.", NoTask)

\* handleProfilePictureChange once its await fetchProfileData() has resolved
handleProfilePictureChange_fetched(t, u) ==
    Frame([u EXCEPT !.isUploadingProfilePicture = FALSE],
          "Profile picture updated successfully!", NoTask)

\* handleProfilePictureChange's catch and finally without the alert
handleProfilePictureChange_failed_silent(t, u) ==
    Frame([u EXCEPT !.isUploadingProfilePicture = FALSE], "", NoTask)

\* handleProfilePictureChange's catch and finally
handleProfilePictureChange_failed(t, u) ==
    Frame([u EXCEPT !.isUploadingProfilePicture = FALSE],
          "Failed to update profile picture. Please try again.", NoTask)

\* fetchProfileData returning to its caller without a finally block
fetchProfileData_finally_none(t, u) ==
    CASE t.fn = "handleSaveProfile" -> handleSaveProfile_fetched(t, u)
      [] t.fn = "handleProfilePictureChange" ->
            handleProfilePictureChange_fetched(t, u)
      [] OTHER -> Frame(u, "", NoTask)

\* fetchProfileData's finally, and back in the function that awaited it
fetchProfileData_finally(t, u) ==
    LET u1 == [u EXCEPT !.loading = FALSE]
    IN  CASE t.fn = "handleSaveProfile" -> handleSaveProfile_fetched(t, u1)
          [] t.fn = "handleProfilePictureChange" ->
                handleProfilePictureChange_fetched(t, u1)
          [] OTHER -> Frame(u1, "", NoTask)

\* fetchProfileData once getCurrentUserProfile() or getProfileByUsername() has
\* resolved
fetchProfileData_profile(t, u, c) ==
    LET profile == c.ret.val
        u1 == [u EXCEPT !.userProfile = profile]
        u2 == IF profile # Null
              THEN [u1 EXCEPT !.editAboutMe = OrEmpty(profile.v.about_me),
                              !.editContactInfo = OrEmpty(profile.v.contact_info)]
              ELSE u1
    IN  fetchProfileData_finally(t, u2)

\* fetchProfileData once getUserPins(username) has settled
fetchProfileData_pins(t, u, c) ==
    IF c.ret.kind = "raised"
    THEN fetchProfileData_finally(t, u)
    ELSE LET u1 == [u EXCEPT !.userPins = c.ret.val]
         IN  IF ~IsGuestUser(t.username)
             THEN LET c2 ==
                          IF t.username = t.currentUser
                          THEN getCurrentUserProfile_start(
                                   Enter("getCurrentUserProfile", <<>>))
                          ELSE getProfileByUsername_start(
                                   Enter("getProfileByUsername", <<t.username>>),
                                   t.username)
                  IN  IF c2.pc = "await"
                      THEN Frame(u1, "", Suspend(t, "profile", c2))
                      ELSE fetchProfileData_profile(t, u1, c2)
             ELSE fetchProfileData_finally(
                      t, [u1 EXCEPT !.userProfile = mockProfile(t.username)])

\* fetchProfileData issuing its profile request at once, beside the pins request
fetchProfileData_start_parallel(t, u) ==
    LET u1 == [u EXCEPT !.loading = TRUE]
        c2 == IF t.username = t.currentUser
              THEN getCurrentUserProfile_start(Enter("getCurrentUserProfile", <<>>))
              ELSE getProfileByUsername_start(
                       Enter("getProfileByUsername", <<t.username>>), t.username)
    IN  IF c2.pc = "await" /\ ~IsGuestUser(t.username)
        THEN Frame(u1, "", Suspend(t, "profile", c2))
        ELSE fetchProfileData_pins(
                 t, u1, getUserPins_start(Enter("getUserPins", <<t.username>>),
                                          t.username))

\* fetchProfileData up to its first await
fetchProfileData_start(t, u) ==
    LET u1 == [u EXCEPT !.loading = TRUE]
        c == getUserPins_start(Enter("getUserPins", <<t.username>>), t.username)
    IN  IF c.pc = "await"
        THEN Frame(u1, "", Suspend(t, "pins", c))
        ELSE fetchProfileData_pins(t, u1, c)

\* checkAuthStatus once its getCurrentUserProfile() has resolved
checkAuthStatus_profile(t, u, c) ==
    Frame([u EXCEPT !.userProfile = c.ret.val], "", NoTask)

\* checkAuthStatus once supabase.auth.getUser() has settled
checkAuthStatus_user(t, u, c) ==
    IF c.last.status = "throw"
    THEN Frame([u EXCEPT !.isAuthenticated = FALSE], "", NoTask)
    ELSE LET user == c.ret.val
             u1 == [u EXCEPT !.isAuthenticated = (user # Null)]
         IN  IF user # Null
             THEN LET c2 == getCurrentUserProfile_start(
                                Enter("getCurrentUserProfile", <<>>))
                  IN  IF c2.pc = "await"
                      THEN Frame(u1, "", Suspend(t, "authProfile", c2))
                      ELSE checkAuthStatus_profile(t, u1, c2)
             ELSE Frame(u1, "", NoTask)

\* checkAuthStatus up to its first await
checkAuthStatus_start(t, u) ==
    IF ~supabase
    THEN Frame(u, "", NoTask)
    ELSE Frame(u, "", Suspend(t, "getUser",
                              Issue(Enter("auth.getUser", <<>>), GetUserReq)))

\* handleSaveProfile_updated, were a successful save to leave edit mode at once
\* without the re-fetch
handleSaveProfile_updated_noRefetch(t, u, c) ==
    IF ~c.ret.val.v
    THEN handleSaveProfile_failed(t, u)
    ELSE handleSaveProfile_fetched(t, u)

\* handleSaveProfile once updateUserProfile(...) has resolved
handleSaveProfile_updated(t, u, c) ==
    IF ~c.ret.val.v
    THEN handleSaveProfile_failed(t, u)
    ELSE fetchProfileData_start(t, u)

\* handleSaveProfile up to its first await, without the guest test
handleSaveProfile_start_unguarded(t, u) ==
    IF t.userProfile = Null
    THEN Frame(u, "", NoTask)
    ELSE LET u1 == [u EXCEPT !.savingProfile = TRUE]
             profileData == [about_me |-> TrimOrNull(u.editAboutMe),
                             contact_info |-> TrimOrNull(u.editContactInfo)]
             c == updateUserProfile_start(
                      Enter("updateUserProfile",
                            <<t.userProfile.v.id, profileData>>),
                      t.userProfile.v.id, profileData)
         IN  IF c.pc = "await"
             THEN Frame(u1, "", Suspend(t, "update", c))
             ELSE handleSaveProfile_updated(t, u1, c)

\* handleSaveProfile up to its first await, in the render with state u
handleSaveProfile_start(t, u) ==
    IF t.userProfile = Null \/ IsGuestUser(t.username)
    THEN Frame(u, "", NoTask)
    ELSE LET u1 == [u EXCEPT !.savingProfile = TRUE]
             profileData == [about_me |-> TrimOrNull(u.editAboutMe),
                             contact_info |-> TrimOrNull(u.editContactInfo)]
             c == updateUserProfile_start(
                      Enter("updateUserProfile",
                            <<t.userProfile.v.id, profileData>>),
                      t.userProfile.v.id, profileData)
         IN  IF c.pc = "await"
             THEN Frame(u1, "", Suspend(t, "update", c))
             ELSE handleSaveProfile_updated(t, u1, c)

\* handleProfilePictureChange once updateUserProfile(...) has resolved
handleProfilePictureChange_updated(t, u, c) ==
    IF ~c.ret.val.v
    THEN handleProfilePictureChange_failed(t, u)
    ELSE fetchProfileData_start(t, u)

\* handleProfilePictureChange once uploadImage(...) has resolved
handleProfilePictureChange_uploaded(t, u, c) ==
    IF c.ret.val = Null
    THEN handleProfilePictureChange_failed(t, u)
    ELSE LET publicUrl ==
                 getImageUrl_start(
                     Enter("getImageUrl", <<c.ret.val.v, "profile-pictures">>),
                     c.ret.val.v, "profile-pictures").ret.val
             profileData == [profile_picture_url |-> publicUrl]
             c2 == updateUserProfile_start(
                       Enter("updateUserProfile",
                             <<t.userProfile.v.id, profileData>>),
                       t.userProfile.v.id, profileData)
         IN  IF c2.pc = "await"
             THEN Frame(u, "", Suspend(t, "pictureUpdate", c2))
             ELSE handleProfilePictureChange_updated(t, u, c2)

\* handleProfilePictureChange's two validations with the size test off by one
handleProfilePictureChange_validate_atLeast(file) ==
    IF ~StartsWith(file.type, ImagePrefix)
    THEN "Please select an image file"
    ELSE IF file.size >= MaxImageBytes
         THEN "Image size must be less than 5MB"
         ELSE ""

\* handleProfilePictureChange's two validations: the alert that rejects file,
\* "" when it passes
handleProfilePictureChange_validate(file) ==
    IF ~StartsWith(file.type, ImagePrefix)
    THEN "Please select an image file"
    ELSE IF file.size > MaxImageBytes
         THEN "Image size must be less than 5MB"
         ELSE ""

\* handleProfilePictureChange up to its first await, in the render with state u
handleProfilePictureChange_start(t, u, rand) ==
    IF t.file = NoFile \/ ~u.isAuthenticated \/ t.userProfile = Null
       \/ IsGuestUser(t.username)
    THEN Frame(u, "", NoTask)
    ELSE IF handleProfilePictureChange_validate(t.file) # ""
         THEN Frame(u, handleProfilePictureChange_validate(t.file), NoTask)
         ELSE LET u1 == [u EXCEPT !.isUploadingProfilePicture = TRUE]
                  c == uploadImage_start(
                           Enter("uploadImage",
                                 <<t.file, t.userProfile.v.id, "profile-pictures">>),
                           t.file, t.userProfile.v.id, "profile-pictures", rand)
              IN  IF c.pc = "await"
                  THEN Frame(u1, "", Suspend(t, "upload", c))
                  ELSE handleProfilePictureChange_uploaded(t, u1, c)

\* Task t goes on once the data-access call it awaits has become c.
Settled(t, u, c) ==
    IF c.pc = "await"
    THEN Frame(u, "", [t EXCEPT !.c = c])
    ELSE CASE t.at = "pins" -> fetchProfileData_pins(t, u, c)
           [] t.at = "profile" -> fetchProfileData_profile(t, u, c)
           [] t.at = "getUser" -> checkAuthStatus_user(t, u, c)
           [] t.at = "authProfile" -> checkAuthStatus_profile(t, u, c)
           [] t.at = "update" -> handleSaveProfile_updated(t, u, c)
           [] t.at = "upload" -> handleProfilePictureChange_uploaded(t, u, c)
           [] t.at = "pictureUpdate" ->
                 handleProfilePictureChange_updated(t, u, c)

----------------------------------------------------------------------------
(* The profile modal: its steps *)

isOwnProfile == username = currentUser
isGuestUser == IsGuestUser(username)

Pending == BagCardinality(tasks)
TaskBag(S) == SetToBag(S \ {NoTask})

\* Files the user can pick: an image of exactly the limit, one a byte over,
\* a small text file and a large one.
Files ==
    {[ext |-> "png", size |-> MaxImageBytes, type |-> Png.type],
     [ext |-> "png", size |-> MaxImageBytes + 1, type |-> Png.type],
     [ext |-> "txt", size |-> 1024, type |-> <<"t", "e", "x", "t", "/", "p">>],
     [ext |-> "txt", size |-> MaxImageBytes + 1,
      type |-> <<"t", "e", "x", "t", "/", "p">>]}

Texts == {<<"h", "i", " ">>, <<" ">>}

\* The user or the parent acts on the modal: the data-access layer's callers
\* and the backend stay as they are.
Acts ==
    /\ interactions < MaxInteractions
    /\ interactions' = interactions + 1
    /\ UNCHANGED <<supabase, session, db, now, call>>

\* The effect with a cleanup that abandons what the previous render left in
\* flight (the code's effect returns no cleanup).
Effect_cleanup(o, n) ==
    IF o /\ n # <<>>
    THEN LET f == fetchProfileData_start(
                      Task("fetchProfileData", n, currentUser, Null, NoFile), ui)
             a == checkAuthStatus_start(
                      Task("checkAuthStatus", n, currentUser, Null, NoFile), f.ui)
         IN  /\ ui' = a.ui
             /\ tasks' = TaskBag({f.task, a.task})
    ELSE ui' = ui /\ tasks' = EmptyBag

\* The effect on [isOpen, username], with the props o and n of the new render.
Effect(o, n) ==
    IF o /\ n # <<>>
    THEN LET f == fetchProfileData_start(
                      Task("fetchProfileData", n, currentUser, Null, NoFile), ui)
             a == checkAuthStatus_start(
                      Task("checkAuthStatus", n, currentUser, Null, NoFile), f.ui)
         IN  /\ ui' = a.ui
             /\ tasks' = tasks (+) TaskBag({f.task, a.task})
    ELSE UNCHANGED <<ui, tasks>>

\* The parent opens the modal.
Open ==
    /\ ~isOpen /\ ~picker
    /\ Pending + 2 <= MaxTasks
    /\ isOpen' = TRUE
    /\ Effect(TRUE, username)
    /\ event' = NoEvent /\ alert' = ""
    /\ UNCHANGED <<username, currentUser, picker>>
    /\ Acts

\* onClose: the parent closes the modal; what is in flight stays in flight.
onClose ==
    /\ isOpen /\ ~picker
    /\ isOpen' = FALSE
    /\ Effect(FALSE, username)
    /\ event' = NoEvent /\ alert' = ""
    /\ UNCHANGED <<username, currentUser, picker>>
    /\ Acts

\* The parent shows another user's profile.
ChangeUsername ==
    \E n \in ModalUsernames \ {username} :
        /\ ~picker
        /\ Pending + 2 <= MaxTasks
        /\ username' = n
        /\ Effect(isOpen, n)
        /\ event' = NoEvent /\ alert' = ""
        /\ UNCHANGED <<isOpen, currentUser, picker>>
        /\ Acts

\* The response to the request task t awaits arrives and t runs to its next
\* await or to its end.
Resolves(t, resp) ==
    LET r == Settled(t, ui, Continue(t.c, resp))
    IN  /\ db' = resp.db
        /\ ui' = r.ui
        /\ alert' = r.alert
        /\ tasks' = (tasks (-) SetToBag({t})) (+) TaskBag({r.task})
        /\ event' = NoEvent
        /\ UNCHANGED <<supabase, session, now, call>>
        /\ UNCHANGED <<isOpen, username, currentUser, picker, interactions>>

Suspended(ats) == {t \in BagToSet(tasks) : t.at \in ats}

fetchProfileData_awaitPins ==
    \E t \in Suspended({"pins"}) :
        /\ t.c.pc = "await"
        /\ \E resp \in Responses(t.c.req) : Resolves(t, resp)

fetchProfileData_awaitProfile ==
    \E t \in Suspended({"profile"}) :
        /\ t.c.pc = "await"
        /\ \E resp \in Responses(t.c.req) : Resolves(t, resp)

checkAuthStatus_awaitUser ==
    \E t \in Suspended({"getUser"}) :
        /\ t.c.pc = "await"
        /\ \E resp \in Responses(t.c.req) : Resolves(t, resp)

checkAuthStatus_awaitProfile ==
    \E t \in Suspended({"authProfile"}) :
        /\ t.c.pc = "await"
        /\ \E resp \in Responses(t.c.req) : Resolves(t, resp)

handleSaveProfile_awaitUpdate ==
    \E t \in Suspended({"update"}) :
        /\ t.c.pc = "await"
        /\ \E resp \in Responses(t.c.req) : Resolves(t, resp)

handleProfilePictureChange_awaitUpload ==
    \E t \in Suspended({"upload"}) :
        /\ t.c.pc = "await"
        /\ \E resp \in Responses(t.c.req) : Resolves(t, resp)

handleProfilePictureChange_awaitUpdate ==
    \E t \in Suspended({"pictureUpdate"}) :
        /\ t.c.pc = "await"
        /\ \E resp \in Responses(t.c.req) : Resolves(t, resp)

\* A click on the picture button, which the render disables unless the profile
\* is the signed-in user's own: the file chooser opens.
handleProfilePictureClick ==
    /\ isOpen /\ ~picker
    /\ ~(~isOwnProfile \/ ~ui.isAuthenticated \/ ui.isUploadingProfilePicture
         \/ isGuestUser)
    /\ picker' = (isOwnProfile /\ ui.isAuthenticated /\ ~isGuestUser)
    /\ event' = NoEvent /\ alert' = ""
    /\ UNCHANGED <<isOpen, username, currentUser, ui, tasks>>
    /\ Acts

\* The file chooser closes with a file: the input's change event.
handleProfilePictureChange ==
    \E file \in Files, rand \in Rands :
        LET r == handleProfilePictureChange_start(
                     Task("handleProfilePictureChange", username, currentUser,
                          ui.userProfile, file), ui, rand)
        IN  /\ picker
            /\ Pending + 1 <= MaxTasks
            /\ picker' = FALSE
            /\ event' = [kind |-> "change", file |-> file]
            /\ ui' = r.ui
            /\ alert' = r.alert
            /\ tasks' = tasks (+) TaskBag({r.task})
            /\ UNCHANGED <<isOpen, username, currentUser>>
            /\ Acts

\* The file chooser is dismissed: no change event.
CancelPicker ==
    /\ picker
    /\ picker' = FALSE
    /\ event' = NoEvent /\ alert' = ""
    /\ UNCHANGED <<isOpen, username, currentUser, ui, tasks>>
    /\ Acts

\* The Edit Profile / Cancel button
toggleEditProfile ==
    /\ isOpen /\ ~picker
    /\ isOwnProfile /\ ui.isAuthenticated /\ ~isGuestUser
    /\ ui' = [ui EXCEPT !.isEditingProfile = ~ui.isEditingProfile]
    /\ event' = NoEvent /\ alert' = ""
    /\ UNCHANGED <<isOpen, username, currentUser, tasks, picker>>
    /\ Acts

\* Typing in the About textarea
setEditAboutMe ==
    \E text \in Texts \ {ui.editAboutMe} :
        /\ isOpen /\ ~picker
        /\ ui.isEditingProfile /\ ~isGuestUser /\ isOwnProfile
        /\ ui' = [ui EXCEPT !.editAboutMe = text]
        /\ event' = NoEvent /\ alert' = ""
        /\ UNCHANGED <<isOpen, username, currentUser, tasks, picker>>
        /\ Acts

\* A click on Save Profile
handleSaveProfile ==
    LET r == handleSaveProfile_start(
                 Task("handleSaveProfile", username, currentUser,
                      ui.userProfile, NoFile), ui)
    IN  /\ isOpen /\ ~picker
        /\ ui.isEditingProfile /\ isOwnProfile /\ ~ui.savingProfile
        /\ Pending + 1 <= MaxTasks
        /\ ui' = r.ui
        /\ alert' = r.alert
        /\ tasks' = tasks (+) TaskBag({r.task})
        /\ event' = NoEvent
        /\ UNCHANGED <<isOpen, username, currentUser, picker>>
        /\ Acts

\* A click on Message: the chat window opens and the modal closes.
handleDirectMessage ==
    /\ isOpen /\ ~picker
    /\ ~isOwnProfile /\ ui.isAuthenticated /\ ~isGuestUser
    /\ IF ~ui.isAuthenticated
       THEN alert' = "Please sign in to send direct messages" /\ isOpen' = isOpen
       ELSE IF isOwnProfile
            THEN alert' = "You cannot message yourself" /\ isOpen' = isOpen
            ELSE alert' = "" /\ isOpen' = FALSE
    /\ event' = NoEvent
    /\ UNCHANGED <<username, currentUser, ui, tasks, picker>>
    /\ Acts

InitModal ==
    /\ supabase \in BOOLEAN
    /\ session \in {NoUser, "u1"}
    /\ \E owners \in {{"u2"}, UserIds} : db = InitDb(owners)
    /\ now = 1
    /\ call = [p \in Callers |-> IdleCall]
    /\ isOpen = FALSE
    /\ username \in ModalUsernames
    /\ currentUser \in {Alice, Guest}
    /\ ui = InitUi
    /\ tasks = EmptyBag
    /\ picker = FALSE
    /\ event = NoEvent
    /\ alert = ""
    /\ interactions = 0

NextModal ==
    \/ Open
    \/ onClose
    \/ ChangeUsername
    \/ fetchProfileData_awaitPins
    \/ fetchProfileData_awaitProfile
    \/ checkAuthStatus_awaitUser
    \/ checkAuthStatus_awaitProfile
    \/ handleProfilePictureClick
    \/ handleProfilePictureChange
    \/ CancelPicker
    \/ handleProfilePictureChange_awaitUpload
    \/ handleProfilePictureChange_awaitUpdate
    \/ toggleEditProfile
    \/ setEditAboutMe
    \/ handleSaveProfile
    \/ handleSaveProfile_awaitUpdate
    \/ handleDirectMessage

SpecModal == InitModal /\ [][NextModal]_vars

\* One viewing session: the parent opens and closes the modal but keeps the
\* username it shows.
NextSession ==
    \/ Open
    \/ onClose
    \/ fetchProfileData_awaitPins
    \/ fetchProfileData_awaitProfile
    \/ checkAuthStatus_awaitUser
    \/ checkAuthStatus_awaitProfile
    \/ handleProfilePictureClick
    \/ handleProfilePictureChange
    \/ CancelPicker
    \/ handleProfilePictureChange_awaitUpload
    \/ handleProfilePictureChange_awaitUpdate
    \/ toggleEditProfile
    \/ setEditAboutMe
    \/ handleSaveProfile
    \/ handleSaveProfile_awaitUpdate
    \/ handleDirectMessage

SpecSession == InitModal /\ [][NextSession]_vars

\* The parent re-renders the modal for a guest looking at their own profile;
\* a re-render does not wait for the file chooser.
ShowGuest ==
    /\ username # Guest \/ currentUser # Guest
    /\ Pending + 2 <= MaxTasks
    /\ username' = Guest /\ currentUser' = Guest
    /\ IF isOpen /\ username # Guest
       THEN LET f == fetchProfileData_start(
                         Task("fetchProfileData", Guest, Guest, Null, NoFile), ui)
                a == checkAuthStatus_start(
                         Task("checkAuthStatus", Guest, Guest, Null, NoFile), f.ui)
            IN  /\ ui' = a.ui
                /\ tasks' = tasks (+) TaskBag({f.task, a.task})
       ELSE UNCHANGED <<ui, tasks>>
    /\ event' = NoEvent /\ alert' = ""
    /\ UNCHANGED <<isOpen, picker>>
    /\ Acts

\* One viewing session in which the user may turn into a guest.
SpecGuest == InitModal /\ [][NextSession \/ ShowGuest]_vars

\* Every issued request eventually settles: the response to a request a task
\* awaits eventually arrives.
RequestsSettle ==
    /\ WF_vars(fetchProfileData_awaitPins)
    /\ WF_vars(fetchProfileData_awaitProfile)
    /\ WF_vars(checkAuthStatus_awaitUser)
    /\ WF_vars(checkAuthStatus_awaitProfile)
    /\ WF_vars(handleSaveProfile_awaitUpdate)
    /\ WF_vars(handleProfilePictureChange_awaitUpload)
    /\ WF_vars(handleProfilePictureChange_awaitUpdate)

SpecSessionFair == SpecSession /\ RequestsSettle

----------------------------------------------------------------------------
(* Properties *)

Done(p, fns) == call[p].fn \in fns /\ call[p].pc = "done"
Returned(p, v) == call[p].ret = [kind |-> "value", val |-> v]
Raised(p, msg) == call[p].ret = [kind |-> "raised", message |-> msg]

ListFns ==
    {"getUserPins", "getMarketplaceItems", "getUserMarketplaceItems",
     "getBlogPosts", "getUserBlogPosts"}
BoolFns ==
    {"updateUserProfile", "deleteImage", "updateMarketplaceItem",
     "deleteMarketplaceItem", "updateBlogPost", "deleteBlogPost"}
CreateFns == {"createMarketplaceItem", "createBlogPost"}
NullFns ==
    {"getCurrentUserProfile", "getProfileByUsername", "uploadImage",
     "getBlogPost"} \cup CreateFns
AllFns == ListFns \cup BoolFns \cup NullFns \cup {"getImageUrl"}

\* The empty value each function documents.
EmptyValue(fn) ==
    CASE fn \in ListFns -> List(<<>>)
      [] fn \in BoolFns -> Bool(FALSE)
      [] fn = "getImageUrl" -> Str("")
      [] OTHER -> Null

\* C1: with a null facade every function returns its empty value at once,
\* having sent no request, and raises nothing.
C1_NullFacade ==
    ~supabase =>
        \A p \in Callers :
            call[p].fn # "none" =>
                /\ call[p].pc = "done"
                /\ Returned(p, EmptyValue(call[p].fn))
                /\ call[p].ops = <<>>

C1_Witness ==
    /\ ~supabase
    /\ Done(1, {"createMarketplaceItem"})
    /\ Done(2, {"getImageUrl"})

\* The pins of uname in a table, and a list holding exactly those, latest
\* first.
PinsOf(uname) == {r \in db["pins"] : r.username = uname}
ExactlyPinsOf(s, uname) ==
    /\ {s[i] : i \in 1..Len(s)} = PinsOf(uname)
    /\ Len(s) = Cardinality(PinsOf(uname))
    /\ \A i \in 1..(Len(s) - 1) : s[i].created_at >= s[i + 1].created_at

\* C2 as stated: whatever the pins table holds, getUserPins(u) returns
\* exactly u's pins, latest first.
C2_Original ==
    \A p \in Callers :
        Done(p, {"getUserPins"}) =>
            /\ call[p].ret.kind = "value"
            /\ ExactlyPinsOf(call[p].ret.val.v, call[p].args[1])

\* C2, amended: a getUserPins(u) whose query the backend answers without an
\* error returns exactly u's pins, latest first; on a null facade or a
\* backend error it returns the empty list.
C2_Amended ==
    \A p \in Callers :
        Done(p, {"getUserPins"}) /\ call[p].ret.kind = "value" =>
            IF call[p].last.status = "ok"
            THEN ExactlyPinsOf(call[p].ret.val.v, call[p].args[1])
            ELSE /\ ~supabase \/ call[p].last.status = "error"
                 /\ Returned(p, List(<<>>))

\* a result of two pins, the later one first although its id is the smaller,
\* from a table that also holds another user's pin
C2_Witness ==
    \E p \in Callers :
        /\ Done(p, {"getUserPins"})
        /\ call[p].last.status = "ok"
        /\ Len(call[p].ret.val.v) = 2
        /\ call[p].ret.val.v[1].created_at > call[p].ret.val.v[2].created_at
        /\ call[p].ret.val.v[1].id < call[p].ret.val.v[2].id
        /\ \E r \in db["pins"] : r.username # call[p].args[1]

\* Whether the session has a profile row.
HasProfile == \E r \in db["profiles"] : r.id = session

InsertsOf(p) == {i \in 1..Len(call[p].ops) : call[p].ops[i].op = "insert"}

\* C3 as stated: without an authenticated profile a creation fails with
\* 'User not authenticated' and sends no insert.
C3_Original ==
    \A p \in Callers :
        Done(p, CreateFns) /\ ~HasProfile =>
            Raised(p, "User not authenticated") /\ InsertsOf(p) = {}

\* C3, amended: with the facade present, a creation without an authenticated
\* profile fails with 'User not authenticated' and sends no insert.
C3_Amended ==
    \A p \in Callers :
        Done(p, CreateFns) /\ ~HasProfile /\ supabase =>
            Raised(p, "User not authenticated") /\ InsertsOf(p) = {}

\* a session whose user has no profile row, and both creations refused
C3_Witness ==
    /\ supabase /\ session # NoUser /\ ~HasProfile
    /\ Done(1, {"createMarketplaceItem"}) /\ Raised(1, "User not authenticated")
    /\ Done(2, {"createBlogPost"}) /\ Raised(2, "User not authenticated")
    /\ Len(call[1].ops) = 2

\* A getBlogPost call that read the post and whose update was answered.
ReadAndWrote(p) ==
    /\ Done(p, {"getBlogPost"})
    /\ call[p].data # Null
    /\ Len(call[p].ops) = 2
    /\ call[p].last.status = "ok"
ViewCount(id) == {r.view_count : r \in {x \in db["blog_posts"] : x.id = id}}

\* C4: the increment is a write of the value read plus one.  When two
\* getBlogPost calls on a post have both read it and written, the stored
\* view_count is the larger of the two values read plus one: one more than
\* before, not two, when both read the same value.
C4_WriteIsReadPlusOne ==
    \A p, q \in Callers :
        /\ p # q /\ ReadAndWrote(p) /\ ReadAndWrote(q)
        /\ call[p].args = call[q].args
        => ViewCount(call[p].args[1]) =
               {Max({call[p].data.v.view_count, call[q].data.v.view_count}) + 1}

\* two completed reads, and the count one more than before
C4_LostUpdate ==
    /\ ReadAndWrote(1) /\ ReadAndWrote(2)
    /\ call[1].args = call[2].args
    /\ call[1].data.v.view_count = 0 /\ call[2].data.v.view_count = 0
    /\ ViewCount(call[1].args[1]) = {1}

\* The step in which the read of getBlogPost call p is answered, and the one
\* in which its view_count update is.
ReadStep(p) ==
    /\ call[p].fn = "getBlogPost" /\ call[p].pc = "await"
    /\ call[p].req.op = "select" /\ call'[p] # call[p]
WriteStep(p) ==
    /\ call[p].fn = "getBlogPost" /\ call[p].pc = "await"
    /\ call[p].req.op = "update" /\ call'[p] # call[p]

\* Nothing has written the post's view_count since call p read it: no other
\* call's write falls between the read and the write of p.
NotOverlapped(p) == ViewCount(call[p].args[1]) = {call[p].data.v.view_count}

\* C12 as stated: a getBlogPost call that read an existing post, with no other
\* write between its read and its write, leaves the stored view_count one
\* higher; a call whose read fails or finds no post changes no view_count.
C12_Original ==
    [][\A p \in Callers :
          /\ ReadStep(p) => db' = db
          /\ (ReadStep(p) /\ call'[p].last.status # "ok") =>
                call'[p].pc = "done" /\ Len(call'[p].ops) = 1
          /\ (WriteStep(p) /\ NotOverlapped(p)) =>
                ViewCount(call[p].args[1])' = {call[p].data.v.view_count + 1}]_vars

\* C12, amended: a getBlogPost call that read an existing post, with no other
\* write between its read and its write, leaves the stored view_count one
\* higher when the backend applies its update, and leaves every table as it
\* was when the update fails; a call whose read fails or finds no post sends
\* no update and changes no view_count.
C12_Amended ==
    [][\A p \in Callers :
          /\ ReadStep(p) => db' = db
          /\ (ReadStep(p) /\ call'[p].last.status # "ok") =>
                call'[p].pc = "done" /\ Len(call'[p].ops) = 1
          /\ (WriteStep(p) /\ NotOverlapped(p) /\ call'[p].last.status = "ok") =>
                ViewCount(call[p].args[1])' = {call[p].data.v.view_count + 1}
          /\ (WriteStep(p) /\ call'[p].last.status # "ok") => db' = db]_vars

\* two reads of the post one after the other, and the count two higher
C12_Witness ==
    /\ ReadAndWrote(1) /\ ReadAndWrote(2)
    /\ call[1].args = call[2].args
    /\ call[1].data.v.view_count = 0 /\ call[2].data.v.view_count = 1
    /\ ViewCount(call[1].args[1]) = {2}


\* A task awaits the answer to a query of the profiles table.
QueriesProfiles(t) ==
    t.c.pc = "await" /\ t.c.req.op = "select" /\ t.c.req.table = "profiles"

IsMock(profile) ==
    profile # Null /\ profile.v.role = "guest" /\ profile.v.id = NullId

\* C5: while the modal shows a guest identifier (seven digits), nothing it
\* started for that username queries the profiles table, and once all it
\* started has settled the profile it holds is the mock (role guest, id null).
C5_Original ==
    /\ \A t \in BagToSet(tasks) : IsGuestUser(t.username) => ~QueriesProfiles(t)
    /\ (isOpen /\ isGuestUser /\ tasks = EmptyBag /\ ui.userProfile # Null)
          => IsMock(ui.userProfile)

\* The change event of the last step carried file f.
Changed(f) == event = [kind |-> "change", file |-> f]

\* The guard handleProfilePictureChange reads from its render before it looks
\* at the file.
MayUpload == ui.isAuthenticated /\ ui.userProfile # Null /\ ~isGuestUser

IsImage(f) == StartsWith(f.type, ImagePrefix)
TooBig(f) == f.size > MaxImageBytes
Rejected(f) == ~IsImage(f) \/ TooBig(f)

Untouched ==
    /\ tasks' = tasks
    /\ db' = db
    /\ ui'.isUploadingProfilePicture = ui.isUploadingProfilePicture

Uploads(f) ==
    \E t \in BagToSet(tasks) :
        /\ t.fn = "handleProfilePictureChange" /\ t.at = "upload" /\ t.file = f
        /\ t.c.req.op = "upload"

\* C6: a change event with a file over 5 MB or of a non-image type raises an
\* alert, starts no request and leaves the uploading flag alone; an image of
\* exactly 5 MB is taken (the flag is set and the upload is sent).
C6_Original ==
    [][\A f \in Files :
          Changed(f)' =>
             /\ Rejected(f) => (alert' # "" /\ Untouched)
             /\ (IsImage(f) /\ f.size = MaxImageBytes) =>
                   (ui'.isUploadingProfilePicture /\ Uploads(f)')]_vars

\* C6, amended: a change event with a file over 5 MB or of a non-image type
\* starts no request and leaves the uploading flag alone in every case; it
\* raises the alert (the type's alert first) when the user is authenticated,
\* a profile is loaded and the username is no guest identifier, and is dropped
\* without an alert otherwise.  Under that same condition an image of exactly
\* 5 MB is taken: the flag is set and the upload is sent.
C6_Amended ==
    [][\A f \in Files :
          Changed(f)' =>
             /\ Rejected(f) =>
                   /\ Untouched
                   /\ MayUpload /\ ~IsImage(f) =>
                         alert' = "Please select an image file"
                   /\ MayUpload /\ IsImage(f) =>
                         alert' = "Image size must be less than 5MB"
                   /\ ~MayUpload => alert' = ""
             /\ (MayUpload /\ IsImage(f) /\ f.size = MaxImageBytes) =>
                   (ui'.isUploadingProfilePicture /\ Uploads(f)' /\ alert' = "")]_vars

\* A file one byte over the limit has just been rejected with the size alert
\* while nothing is being uploaded.
C6_Witness ==
    /\ \E f \in Files : Changed(f) /\ IsImage(f) /\ TooBig(f)
    /\ alert = "Image size must be less than 5MB"
    /\ ~ui.isUploadingProfilePicture
    /\ \A t \in BagToSet(tasks) : t.fn # "handleProfilePictureChange"


\* A task of the modal awaits the answer to an update of the profiles table.
UpdatesProfile(t) ==
    t.c.fn = "updateUserProfile" /\ t.c.pc = "await" /\ t.c.req.op = "update"

\* C11: every updateUserProfile the modal has in flight, from a save or from a
\* picture upload, is an update of the signed-in user's own profile row, never
\* of another user's.
C11_Original ==
    \A t \in BagToSet(tasks) :
        UpdatesProfile(t) => t.c.req.eq.id \notin (UserIds \ {session})


\* The tasks of bag B that run handleSaveProfile, and whether a task is inside
\* the fetchProfileData its function awaits.
SaveTasks(B) == {t \in BagToSet(B) : t.fn = "handleSaveProfile"}
InRefetch(t) == t.at \in {"pins", "profile"}

\* The row of the signed-in user as the backend stores it after the step.
StoredOwnProfile ==
    \E r \in db'["profiles"] : r.id = session /\ ui'.userProfile = Row(r)

\* C13 as stated: a step of handleSaveProfile issues the re-fetch only on the
\* successful answer to the update; edit mode changes only when the re-fetch
\* has completed, and then the profile held is the stored record; a failed
\* update issues no re-fetch and leaves edit mode as it is.
C13_Original ==
    [][\A t \in SaveTasks(tasks) : \A resp \in Responses(t.c.req) :
          Resolves(t, resp) =>
             /\ (t.at = "update" /\ resp.status = "ok") =>
                   /\ \E t2 \in SaveTasks(tasks') :
                         t2.at = "pins" /\ t2.c.req.table = "pins"
                   /\ ui'.isEditingProfile = ui.isEditingProfile
             /\ (t.at = "update" /\ resp.status # "ok") =>
                   /\ tasks' = tasks (-) SetToBag({t})
                   /\ ui'.isEditingProfile = ui.isEditingProfile
                   /\ ui'.loading = ui.loading
             /\ ui'.isEditingProfile # ui.isEditingProfile =>
                   InRefetch(t) /\ SaveTasks(tasks') = {}
             /\ (InRefetch(t) /\ SaveTasks(tasks') = {}) =>
                   ~ui'.isEditingProfile /\ StoredOwnProfile]_vars

\* C13, amended: as C13, except that the profile held after the save is the
\* re-fetched record only when the re-fetch obtained one: handleSaveProfile
\* leaves edit mode and reports success also when the re-fetch failed, and
\* then holds the profile it held before (pins request rejected) or none
\* (profile request failed).
C13_Amended ==
    [][\A t \in SaveTasks(tasks) : \A resp \in Responses(t.c.req) :
          Resolves(t, resp) =>
             /\ (t.at = "update" /\ resp.status = "ok") =>
                   /\ \E t2 \in SaveTasks(tasks') :
                         t2.at = "pins" /\ t2.c.req.table = "pins"
                   /\ ui'.isEditingProfile = ui.isEditingProfile
                   /\ ui'.savingProfile = ui.savingProfile
                   /\ alert' = ""
             /\ (t.at = "update" /\ resp.status # "ok") =>
                   /\ tasks' = tasks (-) SetToBag({t})
                   /\ ui'.isEditingProfile = ui.isEditingProfile
                   /\ ui'.loading = ui.loading
                   /\ ~ui'.savingProfile
                   /\ alert' = "Failed to update profile. Please try again."
             /\ ui'.isEditingProfile # ui.isEditingProfile =>
                   InRefetch(t) /\ SaveTasks(tasks') = {}
             /\ (InRefetch(t) /\ SaveTasks(tasks') = {}) =>
                   /\ ~ui'.isEditingProfile /\ ~ui'.savingProfile
                   /\ alert' = "Profile updated successfully!"
                   /\ (t.at = "profile" /\ resp.status = "ok") =>
                         ui'.userProfile = resp.data /\ StoredOwnProfile
                   /\ (t.at = "profile" /\ resp.status # "ok") =>
                         ui'.userProfile = Null
                   /\ t.at = "pins" => ui'.userProfile = ui.userProfile]_vars

\* a save has succeeded: edit mode is off and the profile held is the stored
\* row with the trimmed text
C13_Witness ==
    /\ alert = "Profile updated successfully!"
    /\ ~ui.isEditingProfile /\ ~ui.savingProfile
    /\ ui.userProfile # Null
    /\ ui.userProfile.v.about_me = Str(<<"h", "i">>)
    /\ \E r \in db["profiles"] : ui.userProfile = Row(r)


\* The modal's data state, and the alerts of its catch blocks.
Data(u) ==
    <<u.userPins, u.userProfile, u.isEditingProfile, u.editAboutMe,
      u.editContactInfo>>
FailureAlerts ==
    {"Failed to update profile. Please try again.",
     "Failed to update profile picture. Please try again."}

\* C14 as stated: whenever a request of one of the modal's async paths fails,
\* an alert is shown and userPins, userProfile, isEditingProfile and the edit
\* fields are what they were.
C14_Original ==
    [][\A t \in BagToSet(tasks) : \A resp \in Responses(t.c.req) :
          (Resolves(t, resp) /\ resp.status # "ok") =>
              alert' # "" /\ Data(ui') = Data(ui)]_vars

\* C14, amended: a failed update or upload request of handleSaveProfile or
\* handleProfilePictureChange shows that handler's failure alert, clears its
\* flag and leaves the data state as it was.  A failed request of
\* fetchProfileData or checkAuthStatus shows no failure alert, and can change
\* the data state: a pins request answered with an error empties userPins
\* (a rejected one changes nothing), a failed profile request sets userProfile
\* to null, a failed auth.getUser only clears isAuthenticated.
C14_Amended ==
    [][\A t \in BagToSet(tasks) : \A resp \in Responses(t.c.req) :
          (Resolves(t, resp) /\ resp.status # "ok") =>
             /\ t.at = "update" =>
                   /\ alert' = "Failed to update profile. Please try again."
                   /\ ~ui'.savingProfile /\ Data(ui') = Data(ui)
             /\ t.at \in {"upload", "pictureUpdate"} =>
                   /\ alert' = "Failed to update profile picture. Please try again."
                   /\ ~ui'.isUploadingProfilePicture /\ Data(ui') = Data(ui)
             /\ t.at \in {"pins", "profile", "getUser", "authProfile"} =>
                   alert' \notin FailureAlerts
             /\ t.fn \in {"fetchProfileData", "checkAuthStatus"} => alert' = ""
             /\ (t.at = "pins" /\ resp.status = "throw") =>
                   ui'.userPins = ui.userPins /\ ui'.userProfile = ui.userProfile
             /\ (t.at = "pins" /\ resp.status = "error") =>
                   ui'.userPins = List(<<>>)
             /\ t.at \in {"profile", "authProfile"} => ui'.userProfile = Null
             /\ t.at = "getUser" =>
                   ~ui'.isAuthenticated /\ Data(ui') = Data(ui)]_vars

\* the picture was stored but the profile update failed: the failure alert,
\* the flag cleared, the profile as it was
C14_Witness ==
    /\ alert = "Failed to update profile picture. Please try again."
    /\ ~ui.isUploadingProfilePicture
    /\ db["storage"] # {}
    /\ ui.userProfile # Null
    /\ ui.userProfile.v.profile_picture_url = Null


\* The tasks a step adds.
Issued(t) == CopiesIn(t, tasks') > CopiesIn(t, tasks)
Opens == ~isOpen /\ isOpen' /\ supabase /\ ~IsGuestUser(username)

\* C15 as stated: opening the modal for a non-guest username puts the pins
\* request and the profile request of fetchProfileData in flight together.
C15_Original ==
    [][Opens =>
          \E p, q \in BagToSet(tasks') :
              /\ Issued(p) /\ p.at = "pins" /\ p.username = username
              /\ Issued(q) /\ q.at = "profile" /\ q.username = username]_vars

\* C15, amended: opening the modal for a non-guest username issues the pins
\* request of fetchProfileData and the auth.getUser request of checkAuthStatus
\* and nothing else; fetchProfileData issues its profile request only in the
\* step in which the response to its own pins request arrives, and that
\* response is not a rejection (getCurrentUserProfile then goes on from its
\* auth.getUser request to its profiles query).
C15_Amended ==
    [][/\ Opens =>
             {t.at : t \in {q \in BagToSet(tasks') : Issued(q)}} =
                 {"pins", "getUser"}
       /\ \A q \in BagToSet(tasks') :
             (Issued(q) /\ q.at = "profile") =>
                 \E t \in BagToSet(tasks) : \E resp \in Responses(t.c.req) :
                     /\ t.fn = q.fn /\ t.username = q.username
                     /\ \/ t.at = "pins" /\ resp.status # "throw"
                        \/ t.at = "profile" /\ t.c.fn = "getCurrentUserProfile"
                     /\ Resolves(t, resp)]_vars

\* the pins have arrived and been stored, the profile request is in flight
C15_Witness ==
    /\ isOpen /\ ui.loading /\ ui.userPins # List(<<>>)
    /\ \E t \in BagToSet(tasks) :
          t.fn = "fetchProfileData" /\ t.at = "profile" /\ t.username = username
    /\ \A t \in BagToSet(tasks) : t.at # "pins"


\* C16: closing the modal cancels nothing.  The step that closes it leaves
\* every task in flight and the state as they are; a task leaves the bag only
\* in the step in which the response to its request arrives; and with the
\* modal closed that step still writes: the pins a pins request returned go to
\* userPins, the profile a finished profile request returned goes to
\* userProfile, and a function that ends clears the flag it set (loading for a
\* fetch, savingProfile for a save, isUploadingProfilePicture for an upload).
C16_ClosedWrites ==
    [][/\ (isOpen /\ ~isOpen') => tasks' = tasks /\ ui' = ui
       /\ \A t \in BagToSet(tasks) :
             CopiesIn(t, tasks') < CopiesIn(t, tasks) =>
                 \E resp \in Responses(t.c.req) : Resolves(t, resp)
       /\ \A t \in BagToSet(tasks) : \A resp \in Responses(t.c.req) :
             (~isOpen /\ Resolves(t, resp)) =>
                LET c == Continue(t.c, resp)
                    ends == BagCardinality(tasks') < BagCardinality(tasks)
                IN  /\ (t.at = "pins" /\ c.ret.kind # "raised") =>
                           ui'.userPins = c.ret.val
                    /\ (t.at = "profile" /\ c.pc # "await") =>
                           ui'.userProfile = c.ret.val
                    /\ (t.at \in {"pins", "profile"} /\ ends) => ~ui'.loading
                    /\ (t.fn = "handleSaveProfile" /\ ends) =>
                           ~ui'.savingProfile
                    /\ (t.fn = "handleProfilePictureChange" /\ ends) =>
                           ~ui'.isUploadingProfilePicture]_vars

\* a save that completed after the modal was closed: closing clears the alert,
\* so the success alert of the closed modal was raised by the completion
\* handler, which also left edit mode and cleared savingProfile
C16_Witness ==
    /\ ~isOpen
    /\ alert = "Profile updated successfully!"
    /\ ~ui.savingProfile /\ ~ui.isEditingProfile /\ ~ui.loading
    /\ ui.userProfile # Null
    /\ tasks = EmptyBag


\* C17 as stated: an authenticated user has opened the modal on another user's
\* non-guest username and checkAuthStatus and fetchProfileData have both
\* settled; then userProfile is the viewed user's profile or null, never the
\* current user's own.
C17_Original ==
    (/\ isOpen /\ interactions = 1 /\ tasks = EmptyBag
     /\ supabase /\ session # NoUser
     /\ username # currentUser /\ ~IsGuestUser(username)) =>
        \/ ui.userProfile = Null
        \/ ui.userProfile.v.username = username


\* C18 as stated, for the order in which a response for the earlier username
\* A arrives last: the username has changed to B while a fetchProfileData for
\* A was in flight, and the successful response that ends that fetch is the
\* last one to settle; then userPins holds pins of B only and userProfile is
\* B's profile or null.
C18_Original ==
    [][\A t \in BagToSet(tasks) : \A resp \in Responses(t.c.req) :
          (/\ Resolves(t, resp) /\ resp.status = "ok"
           /\ t.fn = "fetchProfileData" /\ t.username # username
           /\ isOpen /\ tasks' = EmptyBag) =>
              /\ \A i \in 1..Len(ui'.userPins.v) :
                    ui'.userPins.v[i].username = username
              /\ \/ ui'.userProfile = Null
                 \/ ui'.userProfile.v.username = username]_vars


\* C19: provided every issued request eventually settles, each of the flags
\* loading, savingProfile and isUploadingProfilePicture, once set, is
\* eventually false again, on the success path and on every failure path.
C19_FlagsReturn ==
    /\ ui.loading ~> ~ui.loading
    /\ ui.savingProfile ~> ~ui.savingProfile
    /\ ui.isUploadingProfilePicture ~> ~ui.isUploadingProfilePicture

\* a failure path taken to its end: the save's update failed, the failure was
\* reported, and no flag is left set
C19_Witness ==
    /\ alert = "Failed to update profile. Please try again."
    /\ ~ui.loading /\ ~ui.savingProfile /\ ~ui.isUploadingProfilePicture
    /\ ui.isEditingProfile
    /\ tasks = EmptyBag


\* The requests that update a profile or upload an image.
Writes == {"update", "upload", "pictureUpdate"}

\* C20 as stated: while the username shown is a guest's, no profile update and
\* no image upload is issued.
C20_Original ==
    [][\A q \in BagToSet(tasks') :
          (Issued(q) /\ q.at \in Writes) => ~IsGuestUser(username')]_vars

\* C20, amended: a handler invoked in the open modal while the username shown
\* is a guest's issues nothing, opens no file chooser and changes no state, so
\* no task of handleSaveProfile or
\* handleProfilePictureChange ever carries a guest username; the one update
\* issued under a guest username is that of a handleProfilePictureChange
\* started under a non-guest username, whose upload completes after the
\* username has changed.
C20_Amended ==
    [][/\ \A q \in BagToSet(tasks') :
             q.fn \in {"handleSaveProfile", "handleProfilePictureChange"} =>
                 ~IsGuestUser(q.username)
       /\ (IsGuestUser(username) /\ IsGuestUser(username')
           /\ isOpen /\ isOpen' /\ interactions' # interactions) =>
             /\ \A q \in BagToSet(tasks') : Issued(q) => q.at \notin Writes
             /\ ~picker'
             /\ ui' = ui
       /\ \A q \in BagToSet(tasks') :
             (Issued(q) /\ q.at \in Writes /\ IsGuestUser(username')) =>
                 /\ q.at = "pictureUpdate"
                 /\ \E t \in BagToSet(tasks) : \E resp \in Responses(t.c.req) :
                       /\ t.at = "upload" /\ ~IsGuestUser(t.username)
                       /\ Resolves(t, resp)]_vars

\* the file chooser, opened before the user turned guest, has delivered an
\* acceptable image while the username shown is a guest's, and no upload was
\* started
C20_Witness ==
    /\ isOpen /\ IsGuestUser(username)
    /\ event # NoEvent /\ event.kind = "change"
    /\ handleProfilePictureChange_validate(event.file) = ""
    /\ ui.isAuthenticated /\ ui.userProfile # Null
    /\ ~ui.isUploadingProfilePicture
    /\ \A t \in BagToSet(tasks) : t.at \notin Writes


UpdateFns == {"updateUserProfile", "updateMarketplaceItem", "updateBlogPost"}

\* Call p sends an update in this step.
SendsUpdate(p) ==
    /\ call'[p].pc = "await"
    /\ call'[p].req.op = "update"
    /\ call'[p].ops # call[p].ops

\* C7 as stated: every update the layer sends, the view_count update of
\* getBlogPost included, sets updated_at to the time it is sent at.
C7_Original ==
    [][\A p \in Callers :
          SendsUpdate(p) =>
              /\ "updated_at" \in DOMAIN call'[p].req.payload
              /\ call'[p].req.payload["updated_at"] = now]_vars

\* C7, amended: updateUserProfile, updateMarketplaceItem and updateBlogPost
\* set updated_at to the time of the write, whatever updated_at the caller
\* passed; the view_count update of getBlogPost carries view_count alone.
C7_Amended ==
    [][\A p \in Callers :
          SendsUpdate(p) =>
              IF call'[p].fn \in UpdateFns
              THEN /\ "updated_at" \in DOMAIN call'[p].req.payload
                   /\ call'[p].req.payload["updated_at"] = now
              ELSE /\ call'[p].fn = "getBlogPost"
                   /\ DOMAIN call'[p].req.payload = {"view_count"}]_vars

\* an update in flight whose caller passed a stale updated_at, sent at time 2
C7_Witness ==
    \E p \in Callers :
        /\ call[p].fn = "updateBlogPost" /\ call[p].pc = "await"
        /\ "updated_at" \in DOMAIN call[p].args[2]
        /\ call[p].args[2]["updated_at"] = 0
        /\ call[p].req.payload["updated_at"] = 2

\* C8 as stated: a function that is not a creation never raises, and returns
\* its fallback when the backend reported an error or the request failed.
C8_Original ==
    \A p \in Callers :
        Done(p, AllFns \ CreateFns) =>
            /\ call[p].ret.kind = "value"
            /\ call[p].last.status \in {"error", "throw"} =>
                   Returned(p, EmptyValue(call[p].fn))

\* C9: with the facade present and an authenticated profile, an insert the
\* backend answers with an error makes the creation raise that error's
\* message.
C9_CreateRethrows ==
    \A p \in Callers :
        /\ Done(p, CreateFns)
        /\ Len(call[p].ops) = 3
        /\ call[p].last.status = "error"
        => Raised(p, call[p].last.message)

C9_Witness ==
    /\ supabase /\ HasProfile
    /\ Done(1, {"createMarketplaceItem"}) /\ Raised(1, "violates constraint")
    /\ Done(2, {"createBlogPost"}) /\ Raised(2, "refused")
    /\ InsertsOf(1) = {3} /\ InsertsOf(2) = {3}

DataFns == AllFns \ {"uploadImage", "getImageUrl", "deleteImage"}

Ops(p) == [i \in 1..Len(call[p].ops) |-> call[p].ops[i].op]

\* C10 as stated: with the facade present, every call of a data-access
\* function sends exactly one request.
C10_Original ==
    \A p \in Callers :
        supabase /\ Done(p, DataFns) => Len(call[p].ops) = 1

\* C10, amended: with the facade present, a call sends exactly one request,
\* except that getCurrentUserProfile asks the auth subsystem for the user and
\* then, if there is one, queries the profile; that a creation does the same
\* and then, if there is a profile, sends the insert; and that getBlogPost,
\* when its read found the post, sends the view_count update after it.
C10_Amended ==
    \A p \in Callers :
        supabase /\ Done(p, DataFns) =>
            CASE call[p].fn = "getCurrentUserProfile" ->
                   Ops(p) \in {<<"getUser">>, <<"getUser", "select">>}
              [] call[p].fn \in CreateFns ->
                   Ops(p) \in {<<"getUser">>, <<"getUser", "select">>,
                               <<"getUser", "select", "insert">>}
              [] call[p].fn = "getBlogPost" ->
                   Ops(p) = IF call[p].data = Null
                            THEN <<"select">>
                            ELSE <<"select", "update">>
              [] OTHER -> Len(call[p].ops) = 1

\* a creation that sent three requests beside a read that sent two
C10_Witness ==
    /\ supabase
    /\ Done(1, {"createBlogPost"}) /\ Len(call[1].ops) = 3
    /\ Done(2, {"getBlogPost"}) /\ Len(call[2].ops) = 2

====
